---- MODULE Spec2Model ----
(***************************************************************************)
(* Model of GraphClient (functions/graph/graph_client.py): the credential  *)
(* lifecycle (token cache load, silent / interactive acquisition, cache    *)
(* save) and the six remote operations with their retry handling around    *)
(* the shared max_retries counter.                                         *)
(*                                                                         *)
(* The MSAL library, the identity provider and the Graph server are the    *)
(* environment: their answers are drawn nondeterministically.              *)
(***************************************************************************)
EXTENDS Integers, Sequences, FiniteSets, TLC

\* ------------------------------------------------------------------ bounds
\* Most HTTP requests one logical operation may issue in the model.
MaxRequests == 6
\* Number of times the access token lifetime may elapse.
MaxEpoch == 1

\* Most rows handed to one batch_update_excel_rows call in the model.
MaxRows == 2

\* --------------------------------------------------------------- constants
MAX_RETRIES == 3
\* default of response.headers.get('Retry-After', '30')
DEFAULT_RETRY_AFTER == 30
\* time.sleep(10) after a lock-contention response
LOCK_SLEEP == 10
\* a Retry-After value the server may name
SERVER_RETRY_AFTER == 5

ThreadIds == {1, 2}

RetryOps == {"get_excel_rows", "batch_update_excel_rows", "reorder_excel_rows",
             "append_rows_to_table", "list_tables"}
LockOps == {"batch_update_excel_rows", "append_rows_to_table"}
Ops == RetryOps \cup {"send_email"}

\* self.token before any acquisition has assigned it
NoToken == -1

\* HTTP status codes the server answers with (500 stands for any other error)
Statuses == {200, 201, 202, 429, 500}

\* A response: status, whether response.text contains the marker
\* EditModeCannotAcquireLockTooManyRequests, whether the body parses as JSON,
\* and the Retry-After header (<<>> when absent; only read on 429).
Responses ==
    { r \in [status : Statuses, marker : BOOLEAN, json : BOOLEAN,
             retryAfter : {<<>>, <<SERVER_RETRY_AFTER>>}] :
        r.status # 429 => r.retryAfter = <<>> }

NoResp == [status |-> 0, marker |-> FALSE, json |-> FALSE, retryAfter |-> <<>>]

\* Results of msal acquire_token_silent / acquire_token_interactive:
\* a dict with access_token, None, or a dict without access_token.
AcqResults == {"token", "none", "error"}

\* SCOPES (lines 18-19)
SCOPES == <<"Files.Read.All", "Files.ReadWrite", "Files.ReadWrite.All", "Mail.Send">>

NoAuth == [by |-> "none", hadAccounts |-> FALSE, silent |-> "skipped",
           interactive |-> "skipped", calls |-> <<>>, ok |-> FALSE, wrote |-> FALSE,
           changed |-> FALSE, loaded |-> "n/a", scopes |-> <<>>]

VARIABLES
    file,              \* on-disk session-state file: absent, corrupt, blank, empty, account
    written,           \* the file was written by this program since the start
    sessionValid,      \* the provider still accepts the cached account's refresh material
    epoch,             \* access-token lifetime counter of the provider
    threads,           \* the caller threads that use the client
    client,            \* "none" before construction, "ready" after __init__ returned
    accounts,          \* self.cache: "none" or "some" cached account
    has_state_changed, \* self.cache.has_state_changed
    token,             \* self.token (the epoch it was issued in)
    max_retries,       \* self.max_retries
    authLog,           \* the library calls of the acquisition made by the current call
    pc,                \* per thread: position in the current logical operation
    op,                \* per thread: the operation in progress
    resp,              \* per thread: the latest response
    requests,          \* per thread: HTTP requests issued by this logical operation
    sleepFor,          \* per thread: duration handed to time.sleep
    only429,           \* per thread: every response so far was a 429 with a JSON error body
    ensured,           \* per thread: _ensure_token ran in the current attempt
    sentToken,         \* per thread: bearer token of the request headers
    rows,              \* batch_update_excel_rows argument: sequence of <<row number, values>>
    end_column,        \* batch_update_excel_rows argument, as a string of characters
    request_list,      \* batch_update_excel_rows local: the sub-requests built so far
    posted             \* the request made to the $batch endpoint, once made

authVars == <<file, written, sessionValid, accounts, has_state_changed, token, authLog>>
threadVars == <<pc, op, resp, requests, sleepFor, only429, ensured, sentToken>>
vars == <<file, written, sessionValid, epoch, threads, client, accounts, has_state_changed,
          token, max_retries, authLog, pc, op, resp, requests, sleepFor, only429,
          ensured, sentToken, rows, end_column, request_list, posted>>
batchVars == <<rows, end_column, request_list, posted>>
clientVars == <<file, written, sessionValid, epoch, threads, client, accounts,
                has_state_changed, token, max_retries, authLog, pc, op, resp, requests,
                sleepFor, only429, ensured, sentToken>>

\* ------------------------------------------------------------ MSAL library

\* A cache load that never reads the file.
LoadCache_Ignore(f) == "none"

\* A cache load in which an unreadable file still leaves an account behind.
LoadCache_CorruptKeeps(f) == IF f \in {"account", "corrupt"} THEN "some" ELSE "none"

\* SerializableTokenCache.deserialize of the file content inside try/except:
\* a readable blob with an account yields that account, anything else
\* (absent, blank, unreadable, no accounts) leaves the cache empty
\* (lines 38-46: no file; content.strip() empty; exception caught).
LoadCache(f) ==
    CASE f = "absent"  -> "none"
      [] f = "blank"   -> "none"
      [] f = "corrupt" -> "none"
      [] f = "empty"   -> "none"
      [] f = "account" -> "some"

\* self.cache.serialize() written to the file
Serialize(acc) == IF acc = "some" THEN "account" ELSE "empty"

\* Outcomes acquire_token_silent may have for the first cached account.
SilentOutcomes == IF sessionValid THEN AcqResults ELSE {"none", "error"}

Acquired(r) == r = "token"

\* _get_token_or_authenticate (lines 63-77), as the library calls it makes and
\* the token_response it ends with; sRes / iRes are what the library would
\* answer to a silent / an interactive acquisition.
GetTokenOrAuthenticate(acc, sRes, iRes) ==
    LET hasAcc == acc # "none"
        r1     == IF hasAcc THEN sRes ELSE "none"
        c1     == IF hasAcc THEN <<"get_accounts", "silent">> ELSE <<"get_accounts">>
        inter  == ~Acquired(r1)
        r2     == IF inter THEN iRes ELSE r1
        c2     == IF inter THEN Append(c1, "interactive") ELSE c1
    IN  [calls |-> c2, result |-> r2,
         silent |-> IF hasAcc THEN sRes ELSE "skipped",
         interactive |-> IF inter THEN iRes ELSE "skipped",
         scopes |-> (IF hasAcc THEN <<SCOPES>> ELSE <<>>)
                       \o (IF inter THEN <<SCOPES>> ELSE <<>>)]

\* _ensure_token that goes on to the interactive acquisition whatever the silent
\* acquisition returned.
EnsureTokenFlow_AlwaysInteractive(acc, sRes, iRes) ==
    IF acc = "none"
    THEN LET g == GetTokenOrAuthenticate(acc, sRes, iRes)
         IN  [g EXCEPT !.calls = <<"get_accounts">> \o g.calls]
    ELSE [calls |-> <<"get_accounts", "silent", "interactive">>,
          result |-> iRes, silent |-> sRes, interactive |-> iRes,
          scopes |-> <<SCOPES, SCOPES>>]

\* _ensure_token that asks interactively a second time when the first
\* interactive acquisition gave no token.
EnsureTokenFlow_RetryInteractive(acc, sRes, iRes) ==
    IF acc = "none"
    THEN LET g == GetTokenOrAuthenticate(acc, sRes, iRes)
         IN  [g EXCEPT !.calls = <<"get_accounts">> \o g.calls]
    ELSE LET inter == ~Acquired(sRes)
             again == inter /\ ~Acquired(iRes)
         IN  [calls |-> <<"get_accounts", "silent">>
                           \o (IF inter THEN <<"interactive">> ELSE <<>>)
                           \o (IF again THEN <<"interactive">> ELSE <<>>),
              result |-> IF inter THEN iRes ELSE sRes,
              silent |-> sRes,
              interactive |-> IF inter THEN iRes ELSE "skipped",
              scopes |-> <<SCOPES>> \o (IF inter THEN <<SCOPES>> ELSE <<>>)
                            \o (IF again THEN <<SCOPES>> ELSE <<>>)]

\* _ensure_token (lines 79-100): without accounts it delegates to
\* _get_token_or_authenticate, else silent first and interactive on failure.
EnsureTokenFlow(acc, sRes, iRes) ==
    IF acc = "none"
    THEN LET g == GetTokenOrAuthenticate(acc, sRes, iRes)
         IN  [g EXCEPT !.calls = <<"get_accounts">> \o g.calls]
    ELSE LET inter == ~Acquired(sRes)
         IN  [calls |-> IF inter THEN <<"get_accounts", "silent", "interactive">>
                                 ELSE <<"get_accounts", "silent">>,
              result |-> IF inter THEN iRes ELSE sRes,
              silent |-> sRes,
              interactive |-> IF inter THEN iRes ELSE "skipped",
              scopes |-> IF inter THEN <<SCOPES, SCOPES>> ELSE <<SCOPES>>]

\* _save_cache_if_changed without the has_state_changed test
save_cache_if_changed_Always(hsc) == TRUE

\* _save_cache_if_changed (lines 57-61): the file is written when the flag is set
save_cache_if_changed(hsc) == hsc

\* The acquisition epilogue with self.token overwritten before the
\* access_token test, so that a failed acquisition clears it.
AfterAcquisition_ClearsToken(by, fl, acc, hsc, chg) ==
    LET ok    == Acquired(fl.result)
        acc2  == IF Acquired(fl.interactive) THEN "some" ELSE acc
        hsc2  == hsc \/ (chg /\ (fl.silent # "skipped" \/ fl.interactive # "skipped"))
        write == ok /\ hsc2
    IN  [ok |-> ok,
         accounts |-> acc2,
         has_state_changed |-> IF write THEN FALSE ELSE hsc2,
         file |-> IF write THEN Serialize(acc2) ELSE file,
         written |-> written \/ write,
         token |-> IF ok THEN epoch ELSE NoToken,
         sessionValid |-> IF Acquired(fl.interactive) THEN TRUE ELSE sessionValid,
         log |-> [by |-> by, hadAccounts |-> acc # "none", silent |-> fl.silent,
                  interactive |-> fl.interactive, calls |-> fl.calls,
                  ok |-> ok, wrote |-> write, changed |-> hsc2,
                  loaded |-> IF by = "ensure" THEN "n/a" ELSE file,
                  scopes |-> fl.scopes]]

\* The state of the client after an acquisition flow fl ran on a cache holding
\* acc with flag hsc: the library updates the cache (chg: it reports a change);
\* a flow without access_token raises (lines 71-74, 94-97), otherwise
\* _save_cache_if_changed runs (serialize() clears the flag) and self.token is
\* assigned (lines 76-77, 99-100).
AfterAcquisition(by, fl, acc, hsc, chg) ==
    LET ok    == Acquired(fl.result)
        acc2  == IF Acquired(fl.interactive) THEN "some" ELSE acc
        hsc2  == hsc \/ (chg /\ (fl.silent # "skipped" \/ fl.interactive # "skipped"))
        write == ok /\ save_cache_if_changed(hsc2)
    IN  [ok |-> ok,
         accounts |-> acc2,
         has_state_changed |-> IF write THEN FALSE ELSE hsc2,
         file |-> IF write THEN Serialize(acc2) ELSE file,
         written |-> written \/ write,
         token |-> IF ok THEN epoch ELSE token,
         sessionValid |-> IF Acquired(fl.interactive) THEN TRUE ELSE sessionValid,
         log |-> [by |-> by, hadAccounts |-> acc # "none", silent |-> fl.silent,
                  interactive |-> fl.interactive, calls |-> fl.calls,
                  ok |-> ok, wrote |-> write, changed |-> hsc2,
                  loaded |-> IF by = "ensure" THEN "n/a" ELSE file,
                  scopes |-> fl.scopes]]

\* ------------------------------------------- authenticate.py (the script)
\* the scope lists written out at the two call sites (lines 47 and 57)
SCRIPT_SCOPES_SILENT ==
    <<"Files.Read.All", "Files.ReadWrite", "Files.ReadWrite.All", "Mail.Send">>

\* line 57 asking for the file scopes only
SCRIPT_SCOPES_INTERACTIVE_NoMail ==
    <<"Files.Read.All", "Files.ReadWrite", "Files.ReadWrite.All">>

SCRIPT_SCOPES_INTERACTIVE ==
    <<"Files.Read.All", "Files.ReadWrite", "Files.ReadWrite.All", "Mail.Send">>

\* lines 30-35: deserialize(f.read()) inside try/except, with no strip() test:
\* deserialize of empty content gives an empty cache, blank or unreadable
\* content raises and is caught.
ScriptLoadCache(f) ==
    CASE f = "absent"  -> "none"
      [] f = "blank"   -> "none"
      [] f = "corrupt" -> "none"
      [] f = "empty"   -> "none"
      [] f = "account" -> "some"

\* lines 43-58 with the silent attempt left out
authenticate_NoSilent(acc, sRes, iRes) ==
    [calls |-> <<"get_accounts", "interactive">>, result |-> iRes,
     silent |-> "skipped", interactive |-> iRes,
     scopes |-> <<SCRIPT_SCOPES_INTERACTIVE>>]

\* authenticate() lines 43-58: the library calls and the final token_response
authenticate(acc, sRes, iRes) ==
    LET hasAcc == acc # "none"
        r1     == IF hasAcc THEN sRes ELSE "none"
        inter  == ~Acquired(r1)
    IN  [calls |-> <<"get_accounts">> \o (IF hasAcc THEN <<"silent">> ELSE <<>>)
                      \o (IF inter THEN <<"interactive">> ELSE <<>>),
         result |-> IF inter THEN iRes ELSE r1,
         silent |-> IF hasAcc THEN sRes ELSE "skipped",
         interactive |-> IF inter THEN iRes ELSE "skipped",
         scopes |-> (IF hasAcc THEN <<SCRIPT_SCOPES_SILENT>> ELSE <<>>)
                       \o (IF inter THEN <<SCRIPT_SCOPES_INTERACTIVE>> ELSE <<>>)]

\* authenticate() lines 60-73 after flow fl on a freshly loaded cache acc: with
\* a token the cache is written when has_state_changed and True is returned,
\* otherwise False is returned.
ScriptAfter(fl, acc, chg) ==
    LET ok    == Acquired(fl.result)
        acc2  == IF Acquired(fl.interactive) THEN "some" ELSE acc
        hsc   == chg
        write == ok /\ hsc
    IN  [file |-> IF write THEN Serialize(acc2) ELSE file,
         written |-> written \/ write,
         sessionValid |-> IF Acquired(fl.interactive) THEN TRUE ELSE sessionValid,
         log |-> [by |-> "script", hadAccounts |-> acc # "none", silent |-> fl.silent,
                  interactive |-> fl.interactive, calls |-> fl.calls,
                  ok |-> ok, wrote |-> write, changed |-> hsc, loaded |-> file,
                  scopes |-> fl.scopes, returned |-> ok]]

\* ---------------------------------------------------------------- handlers
\* What an operation does with a response r when self.max_retries is mr.
Retry(mr, d) == [act |-> "retry", budget |-> mr, sleep |-> d]
Raise(mr)    == [act |-> "raise", budget |-> mr, sleep |-> 0]
Return(mr)   == [act |-> "return", budget |-> mr, sleep |-> 0]

\* int(response.headers.get('Retry-After', '30'))
RetryAfter(r) == IF r.retryAfter = <<>> THEN DEFAULT_RETRY_AFTER ELSE r.retryAfter[1]

\* lines 115-127; response.json() is evaluated before the status checks
get_excel_rows(r, mr) ==
    IF ~r.json THEN Raise(mr)
    ELSE IF r.status = 429 /\ mr > 0 THEN Retry(mr - 1, RetryAfter(r))
    ELSE IF r.status # 200 THEN Raise(mr)
    ELSE Return(mr)

\* lines 154-170
batch_update_excel_rows(r, mr) ==
    IF r.status = 429 /\ mr > 0 THEN Retry(mr - 1, RetryAfter(r))
    ELSE IF r.status # 200 THEN Raise(mr)
    ELSE IF r.marker /\ MAX_RETRIES > 0 THEN Retry(MAX_RETRIES - 1, LOCK_SLEEP)
    ELSE IF r.json THEN Return(MAX_RETRIES) ELSE Raise(MAX_RETRIES)

\* lines 181-191
reorder_excel_rows(r, mr) ==
    IF r.status = 429 /\ mr > 0 THEN Retry(mr - 1, RetryAfter(r))
    ELSE IF r.status # 200 THEN Raise(mr)
    ELSE IF r.json THEN Return(MAX_RETRIES) ELSE Raise(MAX_RETRIES)

\* append_rows_to_table that accepts 200 as well as 201
append_rows_to_table_Accept200(r, mr) ==
    IF r.status = 429 /\ mr > 0 THEN Retry(mr - 1, RetryAfter(r))
    ELSE IF r.marker /\ mr > 0 THEN Retry(mr - 1, LOCK_SLEEP)
    ELSE IF r.status \notin {200, 201} THEN Raise(mr)
    ELSE IF r.json THEN Return(MAX_RETRIES) ELSE Raise(MAX_RETRIES)

\* lines 202-217
append_rows_to_table(r, mr) ==
    IF r.status = 429 /\ mr > 0 THEN Retry(mr - 1, RetryAfter(r))
    ELSE IF r.marker /\ mr > 0 THEN Retry(mr - 1, LOCK_SLEEP)
    ELSE IF r.status # 201 THEN Raise(mr)
    ELSE IF r.json THEN Return(MAX_RETRIES) ELSE Raise(MAX_RETRIES)

\* list_tables that retries a 429 without testing max_retries > 0
list_tables_NoGuard(r, mr) ==
    IF r.status = 429 THEN Retry(mr - 1, RetryAfter(r))
    ELSE IF r.status # 200 THEN Raise(mr)
    ELSE IF r.json THEN Return(MAX_RETRIES) ELSE Raise(MAX_RETRIES)

\* lines 225-235
list_tables(r, mr) ==
    IF r.status = 429 /\ mr > 0 THEN Retry(mr - 1, RetryAfter(r))
    ELSE IF r.status # 200 THEN Raise(mr)
    ELSE IF r.json THEN Return(MAX_RETRIES) ELSE Raise(MAX_RETRIES)

\* lines 252-255
send_email(r, mr) ==
    IF r.status \notin {202, 200} THEN Raise(mr) ELSE Return(mr)

HandlerOf(o, r, mr) ==
    CASE o = "get_excel_rows" -> get_excel_rows(r, mr)
      [] o = "batch_update_excel_rows" -> batch_update_excel_rows(r, mr)
      [] o = "reorder_excel_rows" -> reorder_excel_rows(r, mr)
      [] o = "append_rows_to_table" -> append_rows_to_table(r, mr)
      [] o = "list_tables" -> list_tables(r, mr)
      [] o = "send_email" -> send_email(r, mr)

\* ------------------------------------------- batch_update_excel_rows body
\* Strings are sequences of one-character strings.
DigitChar(d) ==
    CASE d = 0 -> "0" [] d = 1 -> "1" [] d = 2 -> "2" [] d = 3 -> "3" [] d = 4 -> "4"
      [] d = 5 -> "5" [] d = 6 -> "6" [] d = 7 -> "7" [] d = 8 -> "8" [] d = 9 -> "9"

\* Python str() of a natural number
RECURSIVE str(_)
str(n) == IF n < 10 THEN <<DigitChar(n)>> ELSE Append(str(n \div 10), DigitChar(n % 10))

\* the rows a caller may hand over: row numbers, cell values, end columns
RowNumbers == {5, 9, 12}
RowValues == {<<"x">>, <<"y", "z">>}
EndColumns == {<<"D">>, <<"A", "B">>}
RowsInputs == UNION { [1..n -> RowNumbers \X RowValues] : n \in 0..MaxRows }

BATCH_URL == "https://graph.microsoft.com/v1.0/$batch"
NoPost == [url |-> "", requests |-> <<>>]

\* lines 138-149 with the enumerate index counted from 0 but used as the id
SubRequest_IdFromZero(id, row, endcol) ==
    [id |-> str(id),
     method |-> "PATCH",
     address |-> <<"A">> \o str(row[1]) \o <<":">> \o endcol \o str(row[1]),
     values |-> <<row[2]>>]

\* lines 136-149: the sub-request for the row at enumerate index id (from 0):
\* id str(id + 1), PATCH, range address A{row_number}:{end_column}{row_number},
\* body values [row_data]
SubRequest(id, row, endcol) ==
    [id |-> str(id + 1),
     method |-> "PATCH",
     address |-> <<"A">> \o str(row[1]) \o <<":">> \o endcol \o str(row[1]),
     values |-> <<row[2]>>]

\* -------------------------------------------------------------------- Init
Init ==
    /\ file \in {"absent", "corrupt", "blank", "empty", "account"}
    /\ written = FALSE
    /\ sessionValid \in BOOLEAN
    /\ epoch = 0
    /\ threads = {1}
    /\ client = "none"
    /\ accounts = "none"
    /\ has_state_changed = FALSE
    /\ token = NoToken
    /\ max_retries = MAX_RETRIES
    /\ authLog = NoAuth
    /\ pc = [t \in ThreadIds |-> "idle"]
    /\ op = [t \in ThreadIds |-> "none"]
    /\ resp = [t \in ThreadIds |-> NoResp]
    /\ requests = [t \in ThreadIds |-> 0]
    /\ sleepFor = [t \in ThreadIds |-> 0]
    /\ only429 = [t \in ThreadIds |-> TRUE]
    /\ ensured = [t \in ThreadIds |-> FALSE]
    /\ sentToken = [t \in ThreadIds |-> NoToken]
    /\ rows = <<>>
    /\ end_column = <<>>
    /\ request_list = <<>>
    /\ posted = NoPost

Idle == \A t \in ThreadIds : pc[t] = "idle"

\* ----------------------------------------------------------------- actions

\* GraphClient.__init__ (lines 22-55): load the cache file, then
\* _get_token_or_authenticate; a raise leaves no client.
Initialize ==
    /\ client = "none"
    /\ \E sRes \in SilentOutcomes, iRes \in AcqResults, chg \in BOOLEAN :
         LET acc0 == LoadCache(file)
             a == AfterAcquisition("init", GetTokenOrAuthenticate(acc0, sRes, iRes),
                                   acc0, FALSE, chg)
         IN  /\ client' = IF a.ok THEN "ready" ELSE "none"
             /\ accounts' = IF a.ok THEN a.accounts ELSE "none"
             /\ has_state_changed' = IF a.ok THEN a.has_state_changed ELSE FALSE
             /\ token' = IF a.ok THEN a.token ELSE NoToken
             /\ file' = a.file
             /\ written' = a.written
             /\ sessionValid' = a.sessionValid
             /\ authLog' = a.log
    /\ max_retries' = MAX_RETRIES
    /\ UNCHANGED batchVars
    /\ UNCHANGED <<epoch, threads, threadVars>>

\* A run of the stand-alone script authenticate.py (lines 22-73), as a process
\* of its own with its own cache object.
Authenticate ==
    /\ client = "none"
    /\ \E sRes \in SilentOutcomes, iRes \in AcqResults, chg \in BOOLEAN :
         LET acc0 == ScriptLoadCache(file)
             a == ScriptAfter(authenticate(acc0, sRes, iRes), acc0, chg)
         IN  /\ file' = a.file
             /\ written' = a.written
             /\ sessionValid' = a.sessionValid
             /\ authLog' = a.log
    /\ UNCHANGED batchVars
    /\ UNCHANGED <<epoch, threads, client, accounts, has_state_changed, token,
                   max_retries, threadVars>>

\* The process that holds the client ends; the file stays.
Dispose ==
    /\ client = "ready"
    /\ Idle
    /\ client' = "none"
    /\ accounts' = "none"
    /\ has_state_changed' = FALSE
    /\ token' = NoToken
    /\ max_retries' = MAX_RETRIES
    /\ authLog' = NoAuth
    /\ UNCHANGED batchVars
    /\ UNCHANGED <<file, written, sessionValid, epoch, threads, threadVars>>

\* The access token lifetime elapses at the provider.
TokenExpires ==
    /\ epoch < MaxEpoch
    /\ epoch' = epoch + 1
    /\ UNCHANGED batchVars
    /\ UNCHANGED <<threads, client, max_retries, authVars, threadVars>>

\* The provider stops accepting the cached refresh material.
SessionExpires ==
    /\ sessionValid
    /\ sessionValid' = FALSE
    /\ UNCHANGED batchVars
    /\ UNCHANGED <<file, written, epoch, threads, client, accounts, has_state_changed,
                   token, max_retries, authLog, threadVars>>

\* A caller invokes operation o on the client.
Start(t, o) ==
    /\ t \in threads
    /\ client = "ready"
    /\ pc[t] = "idle"
    /\ pc' = [pc EXCEPT ![t] = IF o = "send_email" THEN "auth" ELSE "send"]
    /\ op' = [op EXCEPT ![t] = o]
    /\ resp' = [resp EXCEPT ![t] = NoResp]
    /\ requests' = [requests EXCEPT ![t] = 0]
    /\ sleepFor' = [sleepFor EXCEPT ![t] = 0]
    /\ only429' = [only429 EXCEPT ![t] = TRUE]
    /\ ensured' = [ensured EXCEPT ![t] = FALSE]
    /\ sentToken' = [sentToken EXCEPT ![t] = NoToken]
    /\ authLog' = NoAuth
    /\ UNCHANGED batchVars
    /\ UNCHANGED <<epoch, threads, client, max_retries, file, written, sessionValid,
                   accounts, has_state_changed, token>>

\* send_email line 242: headers = self._auth_headers() (lines 102-107), which
\* runs _ensure_token and then reads self.token into the headers.
AuthHeaders(t) ==
    /\ pc[t] = "auth"
    /\ \E sRes \in SilentOutcomes, iRes \in AcqResults, chg \in BOOLEAN :
         LET a == AfterAcquisition("ensure", EnsureTokenFlow(accounts, sRes, iRes),
                                   accounts, has_state_changed, chg)
         IN  /\ accounts' = a.accounts
             /\ has_state_changed' = a.has_state_changed
             /\ token' = a.token
             /\ file' = a.file
             /\ written' = a.written
             /\ sessionValid' = a.sessionValid
             /\ authLog' = a.log
             /\ pc' = [pc EXCEPT ![t] = IF a.ok THEN "send" ELSE "raised"]
             /\ ensured' = [ensured EXCEPT ![t] = a.ok]
             /\ sentToken' = [sentToken EXCEPT ![t] = IF a.ok THEN a.token ELSE NoToken]
    /\ UNCHANGED batchVars
    /\ UNCHANGED <<epoch, threads, client, max_retries, op, resp, requests, sleepFor,
                   only429>>

\* The HTTP request of the current attempt (requests.get / requests.post) and
\* the server's answer. The five range/table operations build their headers
\* from self.token here (lines 110-113, 130-133, 173-176, 194-197, 220-223).
SendOf(t, answers) ==
    /\ pc[t] = "send"
    /\ requests[t] < MaxRequests
    /\ \E r \in answers :
         /\ resp' = [resp EXCEPT ![t] = r]
         /\ only429' = [only429 EXCEPT ![t] = only429[t] /\ r.status = 429 /\ r.json]
    /\ requests' = [requests EXCEPT ![t] = requests[t] + 1]
    /\ sentToken' = [sentToken EXCEPT ![t] =
                        IF op[t] = "send_email" THEN sentToken[t] ELSE token]
    /\ pc' = [pc EXCEPT ![t] = "handle"]
    /\ UNCHANGED batchVars
    /\ UNCHANGED <<epoch, threads, client, max_retries, authVars, op, sleepFor, ensured>>

Send(t) == SendOf(t, Responses)

\* The code after the request: retry (decrement, sleep), raise or return.
Handle(t) ==
    /\ pc[t] = "handle"
    /\ LET h == HandlerOf(op[t], resp[t], max_retries)
       IN  /\ max_retries' = h.budget
           /\ sleepFor' = [sleepFor EXCEPT ![t] = h.sleep]
           /\ pc' = [pc EXCEPT ![t] = CASE h.act = "retry" -> "sleep"
                                        [] h.act = "raise" -> "raised"
                                        [] h.act = "return" -> "returned"]
    /\ UNCHANGED batchVars
    /\ UNCHANGED <<epoch, threads, client, authVars, op, resp, requests, only429,
                   ensured, sentToken>>

\* time.sleep returns and the operation calls itself again.
Wake(t) ==
    /\ pc[t] = "sleep"
    /\ pc' = [pc EXCEPT ![t] = "send"]
    /\ ensured' = [ensured EXCEPT ![t] = FALSE]
    /\ UNCHANGED batchVars
    /\ UNCHANGED <<epoch, threads, client, max_retries, authVars, op, resp, requests,
                   sleepFor, only429, sentToken>>

\* The caller has received the result or the exception.
Finish(t) ==
    /\ pc[t] \in {"returned", "raised"}
    /\ pc' = [pc EXCEPT ![t] = "idle"]
    /\ op' = [op EXCEPT ![t] = "none"]
    /\ resp' = [resp EXCEPT ![t] = NoResp]
    /\ requests' = [requests EXCEPT ![t] = 0]
    /\ sleepFor' = [sleepFor EXCEPT ![t] = 0]
    /\ only429' = [only429 EXCEPT ![t] = TRUE]
    /\ ensured' = [ensured EXCEPT ![t] = FALSE]
    /\ sentToken' = [sentToken EXCEPT ![t] = NoToken]
    /\ authLog' = NoAuth
    /\ UNCHANGED batchVars
    /\ UNCHANGED <<epoch, threads, client, max_retries, file, written, sessionValid,
                   accounts, has_state_changed, token>>

Next ==
    \/ Initialize
    \/ Authenticate
    \/ Dispose
    \/ TokenExpires
    \/ SessionExpires
    \/ \E t \in ThreadIds, o \in Ops : Start(t, o)
    \/ \E t \in ThreadIds : AuthHeaders(t)
    \/ \E t \in ThreadIds : Send(t)
    \/ \E t \in ThreadIds : Handle(t)
    \/ \E t \in ThreadIds : Wake(t)
    \/ \E t \in ThreadIds : Finish(t)

Spec == Init /\ [][Next]_vars

\* ------------------------------------------ two callers sharing one client
\* Two threads call reorder_excel_rows / list_tables on one constructed client;
\* the server answers 200 or 429 with a JSON body.
ConcOps == {"reorder_excel_rows", "list_tables"}
ConcResponses ==
    { r \in Responses : r.json /\ ~r.marker /\ r.retryAfter = <<>>
                           /\ r.status \in {200, 429} }

InitConc ==
    /\ file = "account"
    /\ written = FALSE
    /\ sessionValid = TRUE
    /\ epoch = 0
    /\ threads = ThreadIds
    /\ client = "ready"
    /\ accounts = "some"
    /\ has_state_changed = FALSE
    /\ token = 0
    /\ max_retries = MAX_RETRIES
    /\ authLog = NoAuth
    /\ pc = [t \in ThreadIds |-> "idle"]
    /\ op = [t \in ThreadIds |-> "none"]
    /\ resp = [t \in ThreadIds |-> NoResp]
    /\ requests = [t \in ThreadIds |-> 0]
    /\ sleepFor = [t \in ThreadIds |-> 0]
    /\ only429 = [t \in ThreadIds |-> TRUE]
    /\ ensured = [t \in ThreadIds |-> FALSE]
    /\ sentToken = [t \in ThreadIds |-> NoToken]
    /\ rows = <<>>
    /\ end_column = <<>>
    /\ request_list = <<>>
    /\ posted = NoPost

NextConc ==
    \/ \E t \in ThreadIds, o \in ConcOps : Start(t, o)
    \/ \E t \in ThreadIds : SendOf(t, ConcResponses)
    \/ \E t \in ThreadIds : Handle(t)
    \/ \E t \in ThreadIds : Wake(t)
    \/ \E t \in ThreadIds : Finish(t)

SpecConc == InitConc /\ [][NextConc]_vars

\* ---------------------------------- batch_update_excel_rows request building
\* A call of batch_update_excel_rows with some rows and end column, seen from
\* line 134 (request_list = []) on.
InitBatch ==
    /\ file = "account"
    /\ written = FALSE
    /\ sessionValid = TRUE
    /\ epoch = 0
    /\ threads = {1}
    /\ client = "ready"
    /\ accounts = "some"
    /\ has_state_changed = FALSE
    /\ token = 0
    /\ max_retries = MAX_RETRIES
    /\ authLog = NoAuth
    /\ pc = [t \in ThreadIds |-> IF t = 1 THEN "send" ELSE "idle"]
    /\ op = [t \in ThreadIds |-> IF t = 1 THEN "batch_update_excel_rows" ELSE "none"]
    /\ resp = [t \in ThreadIds |-> NoResp]
    /\ requests = [t \in ThreadIds |-> 0]
    /\ sleepFor = [t \in ThreadIds |-> 0]
    /\ only429 = [t \in ThreadIds |-> TRUE]
    /\ ensured = [t \in ThreadIds |-> FALSE]
    /\ sentToken = [t \in ThreadIds |-> NoToken]
    /\ rows \in RowsInputs
    /\ end_column \in EndColumns
    /\ request_list = <<>>
    /\ posted = NoPost

\* one iteration of `for id, row in enumerate(rows)` (lines 135-149)
BatchAppend ==
    /\ Len(request_list) < Len(rows)
    /\ LET id == Len(request_list)
       IN  request_list' = Append(request_list, SubRequest(id, rows[id + 1], end_column))
    /\ UNCHANGED <<rows, end_column, posted, clientVars>>

\* lines 150-154: requests.post of {"requests": request_list} to the $batch URL
BatchPost ==
    /\ Len(request_list) = Len(rows)
    /\ posted = NoPost
    /\ posted' = [url |-> BATCH_URL, requests |-> request_list]
    /\ UNCHANGED <<rows, end_column, request_list, clientVars>>

NextBatch ==
    \/ BatchAppend
    \/ BatchPost

SpecBatch == InitBatch /\ [][NextBatch]_vars

TypeOK ==
    /\ file \in {"absent", "corrupt", "blank", "empty", "account"}
    /\ written \in BOOLEAN
    /\ sessionValid \in BOOLEAN
    /\ epoch \in 0..MaxEpoch
    /\ client \in {"none", "ready"}
    /\ accounts \in {"none", "some"}
    /\ has_state_changed \in BOOLEAN
    /\ token \in {NoToken} \cup (0..MaxEpoch)
    /\ max_retries \in 0..MAX_RETRIES
    /\ \A t \in ThreadIds :
         /\ pc[t] \in {"idle", "auth", "send", "handle", "sleep", "returned", "raised"}
         /\ op[t] \in Ops \cup {"none"}
         /\ requests[t] \in 0..MaxRequests

\* ------------------------------------------------------------------ claims
Ended(t) == pc[t] \in {"returned", "raised"}

\* the step in which thread t runs the code after its request
HandleStep(t) == pc[t] = "handle" /\ pc'[t] # "handle"

\* C1: a retry-wrapped operation whose every response is a 429 (with the JSON
\* error body the server sends) is re-issued exactly MAX_RETRIES times and then
\* ends with an error, whatever ran on the client before; each retry sleeps the
\* Retry-After value of the response (30 when absent).
C1_ThrottleRetryExact ==
    \A t \in ThreadIds :
        /\ (Ended(t) /\ op[t] \in RetryOps /\ requests[t] > 0 /\ only429[t])
              => (pc[t] = "raised" /\ requests[t] = MAX_RETRIES + 1)
        /\ (pc[t] = "sleep" /\ op[t] \in RetryOps /\ only429[t])
              => sleepFor[t] = RetryAfter(resp[t])

\* C2: whenever an operation has returned successfully, max_retries equals
\* MAX_RETRIES.
C2_BudgetResetOnSuccess ==
    \A t \in ThreadIds : pc[t] = "returned" => max_retries = MAX_RETRIES

\* C3: whenever an operation has ended with an error, and whenever no operation
\* is in progress, max_retries equals MAX_RETRIES.
C3_BudgetResetOnError ==
    /\ \A t \in ThreadIds : pc[t] = "raised" => max_retries = MAX_RETRIES
    /\ Idle => max_retries = MAX_RETRIES

\* C4: one logical operation issues at most MAX_RETRIES + 1 HTTP requests.
C4_BoundedRequests ==
    \A t \in ThreadIds : requests[t] <= MAX_RETRIES + 1

\* C5: in batch_update_excel_rows and append_rows_to_table a response whose body
\* has the lock marker, received with max_retries > 0, decrements max_retries by
\* one, sleeps 10 and retries, whatever its status (429, which the throttling
\* rule takes first, left aside).
C5_LockRetry ==
    [][\A t \in ThreadIds :
         (HandleStep(t) /\ op[t] \in LockOps /\ resp[t].marker
            /\ resp[t].status # 429 /\ max_retries > 0)
         => (/\ max_retries' = max_retries - 1
             /\ pc'[t] = "sleep"
             /\ sleepFor'[t] = LOCK_SLEEP)]_vars

\* C6: a 429, or for the write operations a lock-marker response, that arrives
\* when max_retries is 0 ends the operation with an error.
C6_ExhaustionRaises ==
    [][\A t \in ThreadIds :
         (HandleStep(t) /\ max_retries = 0
            /\ (resp[t].status = 429 \/ (op[t] \in LockOps /\ resp[t].marker)))
         => pc'[t] = "raised"]_vars

\* C7: every HTTP request is preceded, within its attempt, by _ensure_token, and
\* carries the token that call left in self.token.
C7_TokenEnsuredBeforeRequest ==
    \A t \in ThreadIds : pc[t] = "handle" => (ensured[t] /\ sentToken[t] = token)

\* C8: in each of the six operations a 429 (with a JSON error body) received
\* with max_retries > 0 decrements max_retries by one and the request is
\* re-issued; it never ends the operation.
C8_UniformThrottling ==
    [][\A t \in ThreadIds :
         (HandleStep(t) /\ resp[t].status = 429 /\ resp[t].json /\ max_retries > 0)
         => (max_retries' = max_retries - 1 /\ pc'[t] = "sleep")]_vars

\* C9: append_rows_to_table returns only on a final status 201, and raises on a
\* 200 that does not meet a retry condition; send_email, once its request was
\* answered, returns exactly when the status is 200 or 202 and raises otherwise.
C9_StatusDiscrimination ==
    \A t \in ThreadIds :
        /\ (op[t] = "append_rows_to_table" /\ pc[t] = "returned")
              => resp[t].status = 201
        /\ (op[t] = "append_rows_to_table" /\ Ended(t) /\ resp[t].status = 200)
              => pc[t] = "raised"
        /\ (op[t] = "send_email" /\ Ended(t) /\ requests[t] > 0)
              => /\ pc[t] = "returned" <=> resp[t].status \in {200, 202}
                 /\ pc[t] = "raised" <=> resp[t].status \notin {200, 202}

C9_Witness ==
    \E t \in ThreadIds :
        /\ op[t] = "append_rows_to_table"
        /\ pc[t] = "raised"
        /\ resp[t].status = 200
        /\ ~resp[t].marker

\* the silent / interactive acquisition calls of the logged acquisition
AcqCalls == SelectSeq(authLog.calls, LAMBDA c : c # "get_accounts")

\* C10: in every acquisition (of __init__ and of _ensure_token), without a cached
\* account interactive acquisition is called with no silent attempt; with a
\* cached account silent acquisition comes first and interactive acquisition is
\* called if and only if the silent result has no access_token.
C10_AcquisitionOrder ==
    authLog.by # "none" =>
        /\ ~authLog.hadAccounts => AcqCalls = <<"interactive">>
        /\ authLog.hadAccounts =>
             /\ AcqCalls[1] = "silent"
             /\ ~Acquired(authLog.silent) <=> AcqCalls = <<"silent", "interactive">>
             /\ Acquired(authLog.silent) => AcqCalls = <<"silent">>

C10_Witness ==
    /\ authLog.by = "ensure"
    /\ authLog.hadAccounts
    /\ authLog.silent = "error"
    /\ AcqCalls = <<"silent", "interactive">>

\* C11: the session-state file is written exactly in the acquisitions that
\* succeeded with has_state_changed set: never after a failed acquisition, never
\* after a successful one with the flag unset; no other step changes the file.
C11_PersistIffChanged ==
    [][/\ authLog'.by # "none" => (authLog'.wrote <=> (authLog'.ok /\ authLog'.changed))
       /\ (file' # file \/ written' # written) => (authLog'.wrote /\ authLog' # authLog)
      ]_vars

C11_Witness ==
    /\ authLog.by = "ensure"
    /\ authLog.ok
    /\ authLog.changed
    /\ authLog.wrote
    /\ file = "account"

\* the step in which __init__ returns a client
InitStep == client = "none" /\ client' = "ready"

\* C12: with no cache file, an __init__ whose interactive acquisition succeeds
\* and changes the library state writes the file (one write, holding the
\* account); an __init__ that loads a written file and whose silent acquisition
\* does not fail makes the silent call only, no interactive call.
C12_IdempotentCacheLoad ==
    [][/\ (InitStep /\ file = "absent" /\ Acquired(authLog'.interactive)
              /\ authLog'.changed)
          => (authLog'.wrote /\ file' = "account" /\ written')
       /\ (InitStep /\ written /\ file = "account"
              /\ authLog'.silent \notin {"none", "error"})
          => (AcqCalls' = <<"silent">> /\ authLog'.interactive = "skipped")
      ]_vars

C12_Witness ==
    /\ client = "ready"
    /\ written
    /\ authLog.by = "init"
    /\ authLog.loaded = "account"
    /\ ~authLog.wrote
    /\ AcqCalls = <<"silent">>

\* the logs an __init__ run with the file absent can leave
AbsentRunLogs ==
    { [AfterAcquisition("init", GetTokenOrAuthenticate(LoadCache("absent"), s, i),
                        LoadCache("absent"), FALSE, c).log EXCEPT !.loaded = "absent"] :
        s \in AcqResults, i \in AcqResults, c \in BOOLEAN }

\* C13: an __init__ run on an unreadable cache file makes the acquisition calls,
\* reaches the result and takes the write decision of a run with the file absent
\* (interactive only, no cached account), and yields a client exactly when the
\* interactive acquisition gave a token.
C13_CorruptCacheTolerance ==
    (authLog.by = "init" /\ authLog.loaded = "corrupt") =>
        /\ [authLog EXCEPT !.loaded = "absent"] \in AbsentRunLogs
        /\ AcqCalls = <<"interactive">>
        /\ (client = "ready") <=> Acquired(authLog.interactive)

C13_Witness ==
    /\ authLog.by = "init"
    /\ authLog.loaded = "corrupt"
    /\ client = "ready"
    /\ authLog.wrote

CallCount(name) == Len(SelectSeq(authLog.calls, LAMBDA c : c = name))

\* C14: in every acquisition silent and interactive acquisition are each called
\* at most once; when neither gave a token the call fails: __init__ leaves no
\* client, send_email raises without having issued a request.
C14_AuthFailureSurfaced ==
    authLog.by \in {"init", "ensure"} =>
        /\ CallCount("silent") <= 1
        /\ CallCount("interactive") <= 1
        /\ (~Acquired(authLog.silent) /\ ~Acquired(authLog.interactive)) => ~authLog.ok
        /\ (~authLog.ok /\ authLog.by = "init") => client = "none"
        /\ (~authLog.ok /\ authLog.by = "ensure") =>
              \A t \in threads :
                  op[t] = "send_email" => (pc[t] = "raised" /\ requests[t] = 0)

C14_Witness ==
    /\ authLog.by = "ensure"
    /\ authLog.silent = "none"
    /\ authLog.interactive = "error"
    /\ \E t \in threads : op[t] = "send_email" /\ pc[t] = "raised" /\ requests[t] = 0

\* the decimal numerals of the ids and row numbers that occur
Numeral ==
    (1 :> <<"1">>) @@ (2 :> <<"2">>) @@ (3 :> <<"3">>) @@ (4 :> <<"4">>)
      @@ (5 :> <<"5">>) @@ (9 :> <<"9">>) @@ (12 :> <<"1", "2">>)

\* sub-request i is the one the claim describes for input row i
Addresses(req, i) ==
    /\ req.id = Numeral[i]
    /\ req.method = "PATCH"
    /\ req.address = <<"A">> \o Numeral[rows[i][1]] \o <<":">> \o end_column
                        \o Numeral[rows[i][1]]
    /\ req.values = <<rows[i][2]>>

\* C15: batch_update_excel_rows builds one sub-request per input row, in input
\* order: the i-th has id "i" (by position, not row number), method PATCH,
\* address A{rowNumber_i}:{endColumn}{rowNumber_i} and values [values_i]; all of
\* them go out in one request to the $batch endpoint.
C15_BatchAddressing ==
    /\ Len(request_list) <= Len(rows)
    /\ \A i \in 1..Len(request_list) : Addresses(request_list[i], i)
    /\ posted # NoPost =>
          /\ posted.url = BATCH_URL
          /\ Len(posted.requests) = Len(rows)
          /\ \A i \in 1..Len(rows) : Addresses(posted.requests[i], i)

C15_Witness ==
    /\ posted # NoPost
    /\ Len(rows) = 2
    /\ rows[1][1] = 5
    /\ rows[2][1] = 9
    /\ end_column = <<"D">>
    /\ posted.requests[2].id = <<"2">>
    /\ posted.requests[2].address = <<"A", "9", ":", "D", "9">>

\* the scope list the system is to request everywhere
ScopeSet == <<"Files.Read.All", "Files.ReadWrite", "Files.ReadWrite.All", "Mail.Send">>

\* C16: every silent and every interactive acquisition call (of __init__, of
\* _ensure_token and of the authenticate script) passes the same four scopes in
\* the same order.
C16_ScopeConsistency ==
    authLog.by # "none" =>
        /\ Len(authLog.scopes) = Len(AcqCalls)
        /\ \A i \in DOMAIN authLog.scopes : authLog.scopes[i] = ScopeSet

C16_Witness ==
    /\ authLog.by = "script"
    /\ AcqCalls = <<"silent", "interactive">>
    /\ authLog.scopes = <<ScopeSet, ScopeSet>>

\* what GraphClient construction logs for the cache file and the library
\* answers that the logged script run had
ConstructionLog ==
    LET s    == IF authLog.silent = "skipped" THEN "none" ELSE authLog.silent
        i    == IF authLog.interactive = "skipped" THEN "none" ELSE authLog.interactive
        acc0 == LoadCache(authLog.loaded)
    IN  AfterAcquisition("init", GetTokenOrAuthenticate(acc0, s, i), acc0, FALSE,
                         authLog.changed).log

\* C20: on every cache file and for all library answers the authenticate script
\* makes the calls and takes the cache-write decision GraphClient construction
\* makes and takes; it returns True exactly when it obtained an access token and
\* False (no exception) otherwise.
C20_ScriptClientEquivalence ==
    authLog.by = "script" =>
        /\ authLog.calls = ConstructionLog.calls
        /\ authLog.silent = ConstructionLog.silent
        /\ authLog.interactive = ConstructionLog.interactive
        /\ authLog.ok = ConstructionLog.ok
        /\ authLog.wrote = ConstructionLog.wrote
        /\ authLog.returned <=> (Acquired(authLog.silent) \/ Acquired(authLog.interactive))

C20_Witness ==
    /\ authLog.by = "script"
    /\ authLog.loaded = "account"
    /\ authLog.silent = "error"
    /\ Acquired(authLog.interactive)
    /\ authLog.wrote
    /\ authLog.returned

\* C17: under strictly serialized use (one caller, one operation at a time) no
\* reorder_excel_rows / list_tables operation is re-issued more than MAX_RETRIES
\* times, and none is refused a retry on its first 429.
C17_SerialPerOperationBound ==
    \A t \in threads :
        op[t] \in {"reorder_excel_rows", "list_tables"} =>
            /\ requests[t] <= MAX_RETRIES + 1
            /\ ~(pc[t] = "raised" /\ requests[t] = 1 /\ resp[t].status = 429)

\* The two states of C17 with both operations in flight: one operation re-issued
\* more than MAX_RETRIES times, one refused a retry on its first 429.
ConcOverRetried ==
    \E t, u \in ThreadIds :
        t # u /\ requests[t] > MAX_RETRIES + 1 /\ pc[u] \notin {"idle"}

ConcRefusedFirst ==
    \E t, u \in ThreadIds :
        /\ t # u
        /\ pc[t] = "raised" /\ requests[t] = 1 /\ resp[t].status = 429
        /\ pc[u] \in {"send", "handle", "sleep"} /\ requests[u] >= MAX_RETRIES

\* C18: max_retries stays within 0..MAX_RETRIES, and it only changes by an
\* assignment of MAX_RETRIES or by a decrement of one under max_retries > 0
\* (batch_update_excel_rows does both in a row on a 200 with the lock marker,
\* lines 163-165).
C18_BudgetRange ==
    /\ [](max_retries \in 0..MAX_RETRIES)
    /\ [][max_retries' # max_retries =>
            \/ max_retries' = MAX_RETRIES
            \/ (max_retries > 0 /\ max_retries' = max_retries - 1)
            \/ \E t \in ThreadIds :
                  /\ HandleStep(t)
                  /\ op[t] = "batch_update_excel_rows"
                  /\ resp[t].status = 200
                  /\ MAX_RETRIES > 0
                  /\ max_retries' = MAX_RETRIES - 1]_vars

C18_Witness ==
    /\ max_retries = 0
    /\ \E t \in ThreadIds : pc[t] = "sleep" /\ requests[t] = MAX_RETRIES

\* C19: a send_email whose _ensure_token fails (no token from the silent and the
\* interactive acquisition) leaves self.token, the session-state file and
\* max_retries as they were.
C19_AuthFailureFrame ==
    [][\A t \in ThreadIds :
         (pc[t] = "auth" /\ pc'[t] = "raised")
         => /\ token' = token
            /\ file' = file
            /\ written' = written
            /\ ~authLog'.wrote
            /\ max_retries' = max_retries]_vars

C19_Witness ==
    /\ authLog.by = "ensure"
    /\ ~authLog.ok
    /\ authLog.changed
    /\ token # NoToken
    /\ \E t \in ThreadIds : op[t] = "send_email" /\ pc[t] = "raised"

====
